---- MODULE Spec2Model ----
(***************************************************************************)
(* xxHash32 / xxHash64 (pierrec/xxHash): the streaming accumulator         *)
(* (New, Write, Sum32/Sum64, Sum, Reset, Size, BlockSize) and the one-shot *)
(* Checksum of both packages.                                              *)
(*                                                                         *)
(* Machine words.  TLC's integers are 32-bit signed, so a Go uint32 or     *)
(* uint64 is kept as the tuple of its bytes, least-significant byte first  *)
(* (4 bytes for uint32, 8 for uint64).  Every operator below computes      *)
(* modulo 2^(8*Len(a)), as Go's unsigned arithmetic does.                  *)
(***************************************************************************)
EXTENDS Integers, Sequences, FiniteSets, TLC

\* ------------------------------------------------------------------------
\* Unsigned fixed-width arithmetic on byte tuples
\* ------------------------------------------------------------------------

\* uint32(n) / uint64(n) of a small non-negative integer n (n < 2^31)
FromNat(n, w) ==
    LET lo == <<n % 256, (n \div 256) % 256, (n \div 65536) % 256, n \div 16777216>>
    IN  IF w = 4 THEN lo ELSE lo \o <<0, 0, 0, 0>>

\* a + b on uint32, wrapping: byte sums with the carry rippling upward
Add4(a, b) ==
    LET c1 == a[1] + b[1]
        c2 == a[2] + b[2] + (c1 \div 256)
        c3 == a[3] + b[3] + (c2 \div 256)
        c4 == a[4] + b[4] + (c3 \div 256)
    IN  <<c1 % 256, c2 % 256, c3 % 256, c4 % 256>>

\* a + b on uint64, wrapping
Add8(a, b) ==
    LET c1 == a[1] + b[1]
        c2 == a[2] + b[2] + (c1 \div 256)
        c3 == a[3] + b[3] + (c2 \div 256)
        c4 == a[4] + b[4] + (c3 \div 256)
        c5 == a[5] + b[5] + (c4 \div 256)
        c6 == a[6] + b[6] + (c5 \div 256)
        c7 == a[7] + b[7] + (c6 \div 256)
        c8 == a[8] + b[8] + (c7 \div 256)
    IN  <<c1 % 256, c2 % 256, c3 % 256, c4 % 256, c5 % 256, c6 % 256, c7 % 256, c8 % 256>>

\* a + b, wrapping
Add(a, b) == IF Len(a) = 4 THEN Add4(a, b) ELSE Add8(a, b)

\* a - b on uint32, wrapping: byte differences with the borrow rippling upward
Sub4(a, b) ==
    LET c1 == a[1] - b[1]
        c2 == a[2] - b[2] - (IF c1 < 0 THEN 1 ELSE 0)
        c3 == a[3] - b[3] - (IF c2 < 0 THEN 1 ELSE 0)
        c4 == a[4] - b[4] - (IF c3 < 0 THEN 1 ELSE 0)
    IN  <<(c1 + 256) % 256, (c2 + 256) % 256, (c3 + 256) % 256, (c4 + 256) % 256>>

\* a - b on uint64, wrapping
Sub8(a, b) ==
    LET c1 == a[1] - b[1]
        c2 == a[2] - b[2] - (IF c1 < 0 THEN 1 ELSE 0)
        c3 == a[3] - b[3] - (IF c2 < 0 THEN 1 ELSE 0)
        c4 == a[4] - b[4] - (IF c3 < 0 THEN 1 ELSE 0)
        c5 == a[5] - b[5] - (IF c4 < 0 THEN 1 ELSE 0)
        c6 == a[6] - b[6] - (IF c5 < 0 THEN 1 ELSE 0)
        c7 == a[7] - b[7] - (IF c6 < 0 THEN 1 ELSE 0)
        c8 == a[8] - b[8] - (IF c7 < 0 THEN 1 ELSE 0)
    IN  <<(c1 + 256) % 256, (c2 + 256) % 256, (c3 + 256) % 256, (c4 + 256) % 256, (c5 + 256) % 256, (c6 + 256) % 256, (c7 + 256) % 256, (c8 + 256) % 256>>

\* a - b, wrapping
Sub(a, b) == IF Len(a) = 4 THEN Sub4(a, b) ELSE Sub8(a, b)

\* a * b on uint32, wrapping: schoolbook columns, low four bytes kept
Mul4(a, b) ==
    LET c1 == a[1] * b[1]
        c2 == a[1] * b[2] + a[2] * b[1] + (c1 \div 256)
        c3 == a[1] * b[3] + a[2] * b[2] + a[3] * b[1] + (c2 \div 256)
        c4 == a[1] * b[4] + a[2] * b[3] + a[3] * b[2] + a[4] * b[1] + (c3 \div 256)
    IN  <<c1 % 256, c2 % 256, c3 % 256, c4 % 256>>

\* a * b on uint64, wrapping: schoolbook columns, low eight bytes kept
Mul8(a, b) ==
    LET c1 == a[1] * b[1]
        c2 == a[1] * b[2] + a[2] * b[1] + (c1 \div 256)
        c3 == a[1] * b[3] + a[2] * b[2] + a[3] * b[1] + (c2 \div 256)
        c4 == a[1] * b[4] + a[2] * b[3] + a[3] * b[2] + a[4] * b[1] + (c3 \div 256)
        c5 == a[1] * b[5] + a[2] * b[4] + a[3] * b[3] + a[4] * b[2] + a[5] * b[1] + (c4 \div 256)
        c6 == a[1] * b[6] + a[2] * b[5] + a[3] * b[4] + a[4] * b[3] + a[5] * b[2] + a[6] * b[1] + (c5 \div 256)
        c7 == a[1] * b[7] + a[2] * b[6] + a[3] * b[5] + a[4] * b[4] + a[5] * b[3] + a[6] * b[2] + a[7] * b[1] + (c6 \div 256)
        c8 == a[1] * b[8] + a[2] * b[7] + a[3] * b[6] + a[4] * b[5] + a[5] * b[4] + a[6] * b[3] + a[7] * b[2] + a[8] * b[1] + (c7 \div 256)
    IN  <<c1 % 256, c2 % 256, c3 % 256, c4 % 256, c5 % 256, c6 % 256, c7 % 256, c8 % 256>>

\* a * b, wrapping (the low half of the product)
Mul(a, b) == IF Len(a) = 4 THEN Mul4(a, b) ELSE Mul8(a, b)

\* a << k, bits shifted out at the top are lost: byte i of the result takes
\* the low bits of byte i - k/8 and the high bits of the byte below it
Shl(a, k) ==
    LET q == k \div 8
        m == 2^(k % 8)
        d == 2^(8 - (k % 8))
        F(i) == (IF i - q >= 1 THEN (a[i - q] * m) % 256 ELSE 0)
                + (IF i - q - 1 >= 1 THEN a[i - q - 1] \div d ELSE 0)
    IN  IF Len(a) = 4 THEN <<F(1), F(2), F(3), F(4)>>
        ELSE <<F(1), F(2), F(3), F(4), F(5), F(6), F(7), F(8)>>

\* a >> k, logical: byte i of the result takes the high bits of byte i + k/8
\* and the low bits of the byte above it
Shr(a, k) ==
    LET q == k \div 8
        m == 2^(k % 8)
        d == 2^(8 - (k % 8))
        n == Len(a)
        F(i) == (IF i + q <= n THEN a[i + q] \div m ELSE 0)
                + (IF i + q + 1 <= n THEN (a[i + q + 1] * d) % 256 ELSE 0)
    IN  IF Len(a) = 4 THEN <<F(1), F(2), F(3), F(4)>>
        ELSE <<F(1), F(2), F(3), F(4), F(5), F(6), F(7), F(8)>>

\* bitwise tables on 4-bit digits
XorTab ==
    [x \in 0..15 |-> [y \in 0..15 |->
        ((x + y) % 2)
        + 2 * (((x \div 2) + (y \div 2)) % 2)
        + 4 * (((x \div 4) + (y \div 4)) % 2)
        + 8 * (((x \div 8) + (y \div 8)) % 2)]]

OrTab ==
    [x \in 0..15 |-> [y \in 0..15 |->
        (IF (x % 2) + (y % 2) > 0 THEN 1 ELSE 0)
        + (IF ((x \div 2) % 2) + ((y \div 2) % 2) > 0 THEN 2 ELSE 0)
        + (IF ((x \div 4) % 2) + ((y \div 4) % 2) > 0 THEN 4 ELSE 0)
        + (IF (x \div 8) + (y \div 8) > 0 THEN 8 ELSE 0)]]

\* a ^ b
Xor(a, b) ==
    LET F(i) == XorTab[a[i] % 16][b[i] % 16] + (16 * XorTab[a[i] \div 16][b[i] \div 16])
    IN  IF Len(a) = 4 THEN <<F(1), F(2), F(3), F(4)>>
        ELSE <<F(1), F(2), F(3), F(4), F(5), F(6), F(7), F(8)>>

\* a | b
Or(a, b) ==
    LET F(i) == OrTab[a[i] % 16][b[i] % 16] + (16 * OrTab[a[i] \div 16][b[i] \div 16])
    IN  IF Len(a) = 4 THEN <<F(1), F(2), F(3), F(4)>>
        ELSE <<F(1), F(2), F(3), F(4), F(5), F(6), F(7), F(8)>>

\* ------------------------------------------------------------------------
\* Byte slices and arrays (TLA+ sequences; Go index i is TLA+ index i + 1)
\* ------------------------------------------------------------------------

\* s[lo:hi]
Slice(s, lo, hi) == SubSeq(s, lo + 1, hi)

\* copy(dst[from:], src): dst after the copy (min(len(dst) - from, len(src))
\* bytes are copied)
Copy(dst, from, src) ==
    [i \in 1..Len(dst) |->
        IF i > from /\ i - from <= Len(src) THEN src[i - from] ELSE dst[i]]

\* a zeroed [n]byte
ZeroBuf(n) == [i \in 1..n |-> 0]

\* ------------------------------------------------------------------------
\* Package xxHash32
\* ------------------------------------------------------------------------

prime32_1 == <<177, 121, 55, 158>>   \* 2654435761
prime32_2 == <<119, 202, 235, 133>>  \* 2246822519
prime32_3 == <<61, 174, 178, 194>>   \* 3266489917
prime32_4 == <<47, 235, 212, 39>>    \* 668265263
prime32_5 == <<177, 103, 86, 22>>    \* 374761393

\* a variant of u32 that takes the first byte as the most significant
u32BigEndian(b, off) == <<b[off + 4], b[off + 3], b[off + 2], b[off + 1]>>

\* u32(buf[off:]): uint32(buf[0]) | uint32(buf[1])<<8 | uint32(buf[2])<<16 |
\* uint32(buf[3])<<24.  The four shifted bytes occupy disjoint bit ranges, so
\* byte k of the result is buf[k].
u32(b, off) == <<b[off + 1], b[off + 2], b[off + 3], b[off + 4]>>

\* (x << k) | (x >> j), the rotation idiom of both packages
ShlOrShr(x, k, j) == Or(Shl(x, k), Shr(x, j))

\* x ^= x >> k
XorShr(x, k) == Xor(x, Shr(x, k))

\* p32 := v + w*prime32_2 ; v = (p32<<13 | p32>>19) * prime32_1
Round32(v, w) ==
    Mul(ShlOrShr(Add(v, Mul(w, prime32_2)), 13, 19), prime32_1)

\* the four lane updates on the 16 bytes b[off : off+16]
Stripe32(x, b, off) ==
    [x EXCEPT !.v1 = Round32(x.v1, u32(b, off)),
              !.v2 = Round32(x.v2, u32(b, off + 4)),
              !.v3 = Round32(x.v3, u32(b, off + 8)),
              !.v4 = Round32(x.v4, u32(b, off + 12))]

\* a variant of Reset that leaves totalLen as it is
Reset32KeepLen(x) ==
    [x EXCEPT !.v1 = Add(Add(x.seed, prime32_1), prime32_2),
              !.v2 = Add(x.seed, prime32_2),
              !.v3 = x.seed,
              !.v4 = Sub(x.seed, prime32_1),
              !.bufused = 0]

\* xxHash.Reset
Reset32(x) ==
    [x EXCEPT !.v1 = Add(Add(x.seed, prime32_1), prime32_2),
              !.v2 = Add(x.seed, prime32_2),
              !.v3 = x.seed,
              !.v4 = Sub(x.seed, prime32_1),
              !.totalLen = 0,
              !.bufused = 0]

\* New: &xxHash{seed: seed} (every other field zero), then Reset
New32(seed) ==
    Reset32([seed |-> seed, v1 |-> FromNat(0, 4), v2 |-> FromNat(0, 4),
             v3 |-> FromNat(0, 4), v4 |-> FromNat(0, 4), totalLen |-> 0,
             buf |-> ZeroBuf(16), bufused |-> 0])

\* a variant of the stripe loop with the test p < n: a stripe that ends exactly
\* at the end of the input is left to the carry
RECURSIVE WriteLoop32Strict(_, _, _, _)
WriteLoop32Strict(x, input, p, n) ==
    IF p < n - 16
    THEN WriteLoop32Strict(Stripe32(x, input, p), input, p + 16, n)
    ELSE [x |-> x, p |-> p]

\* for n := n - 16; p <= n; p += 16 { ... } over input; yields the struct and p
RECURSIVE WriteLoop32(_, _, _, _)
WriteLoop32(x, input, p, n) ==
    IF p <= n - 16
    THEN WriteLoop32(Stripe32(x, input, p), input, p + 16, n)
    ELSE [x |-> x, p |-> p]

\* a variant of the branch that sets bufused to len(input): a short Write
\* drops the bytes carried before it
WriteShort32Restart(x, input) ==
    [x EXCEPT !.buf = Copy(x.buf, x.bufused, input),
              !.bufused = Len(input)]

\* the branch `if n < r`: the input joins the carry bytes
WriteShort32(x, input) ==
    [x EXCEPT !.buf = Copy(x.buf, x.bufused, input),
              !.bufused = x.bufused + Len(input)]

\* the carry block once copy(xxh.buf[xxh.bufused:], input[:r]) has made the
\* carry b1: the carry is mixed into the lanes and bufused = 0
MixCarry32(x, b1) ==
    [Stripe32([x EXCEPT !.buf = b1], b1, 0) EXCEPT !.bufused = 0]

\* a variant of the carry block that leaves p at 0: the bytes that completed
\* the carry are consumed a second time
WriteCarry32NoAdvance(x, input, r) ==
    [x |-> MixCarry32(x, Copy(x.buf, x.bufused, Slice(input, 0, r))),
     p |-> 0]

\* the block `if m > 0`: input[:r] completes the carry, the carry is mixed into
\* the lanes, p = r and bufused = 0; yields the struct and p
WriteCarry32(x, input, r) ==
    [x |-> MixCarry32(x, Copy(x.buf, x.bufused, Slice(input, 0, r))),
     p |-> r]

\* the stripe loop over input from the struct and p that c holds
WriteStripes32(c, input) == WriteLoop32(c.x, input, c.p, Len(input))

\* copy(xxh.buf[xxh.bufused:], input[p:]); xxh.bufused += len(input) - p, from
\* the struct and p that lp holds
WriteRest32(lp, input) ==
    [lp.x EXCEPT !.buf = Copy(lp.x.buf, lp.x.bufused, Slice(input, lp.p, Len(input))),
                 !.bufused = lp.x.bufused + (Len(input) - lp.p)]

\* the statements after the branch `if n < r`: p := 0, the carry block, the
\* stripe loop over input, and the copy of input[p:] into the carry
WriteLong32(x, input, m, r) ==
    WriteRest32(WriteStripes32(IF m > 0 THEN WriteCarry32(x, input, r)
                                        ELSE [x |-> x, p |-> 0], input), input)

\* the branches of Write on the struct x0 that has the new totalLen
WriteBranch32(x0, input, n, m, r) ==
    IF n < r THEN WriteShort32(x0, input) ELSE WriteLong32(x0, input, m, r)

\* a variant of Write that adds to totalLen only on a call that mixes a stripe:
\* the bytes of a call that only stages them in the carry are not counted
Write32CountMixed(x, input) ==
    [x   |-> WriteBranch32([x EXCEPT !.totalLen =
                                  IF Len(input) < Len(x.buf) - x.bufused
                                  THEN x.totalLen
                                  ELSE x.totalLen + Len(input)],
                           input, Len(input), x.bufused, Len(x.buf) - x.bufused),
     n   |-> Len(input),
     err |-> "nil"]

\* xxHash.Write: the state after the call and the returned (n, err)
Write32(x, input) ==
    [x   |-> WriteBranch32([x EXCEPT !.totalLen = x.totalLen + Len(input)], input,
                           Len(input), x.bufused, Len(x.buf) - x.bufused),
     n   |-> Len(input),
     err |-> "nil"]

\* for n := n - 4; p <= n; p += 4 { h32 += u32(b[p:p+4]) * prime32_3;
\* h32 = ((h32 << 17) | (h32 >> 15)) * prime32_4 }; yields h32 and p
RECURSIVE TailWords32(_, _, _, _)
TailWords32(h, b, p, n) ==
    IF p <= n - 4
    THEN TailWords32(Mul(ShlOrShr(Add(h, Mul(u32(b, p), prime32_3)), 17, 15),
                         prime32_4), b, p + 4, n)
    ELSE [h |-> h, p |-> p]

\* for ; p < n; p++ { h32 += uint32(b[p]) * prime32_5;
\* h32 = ((h32 << 11) | (h32 >> 21)) * prime32_1 }
RECURSIVE TailBytes32(_, _, _, _)
TailBytes32(h, b, p, n) ==
    IF p < n
    THEN TailBytes32(Mul(ShlOrShr(Add(h, Mul(FromNat(b[p + 1], 4), prime32_5)), 11, 21),
                         prime32_1), b, p + 1, n)
    ELSE h

\* a variant of the byte loop that runs one byte beyond n where b has one
TailRest32Over(t, b, n) == TailBytes32(t.h, b, t.p, IF n < Len(b) THEN n + 1 ELSE n)

\* the byte loop from the h32 and p the word loop has left in t
TailRest32(t, b, n) == TailBytes32(t.h, b, t.p, n)

\* the two tail loops over b[0:n]
Tail32(h, b, n) == TailRest32(TailWords32(h, b, 0, n), b, n)

\* h32 ^= h32 >> 15; h32 *= prime32_2; h32 ^= h32 >> 13; h32 *= prime32_3;
\* h32 ^= h32 >> 16
Avalanche32(h) ==
    XorShr(Mul(XorShr(Mul(XorShr(h, 15), prime32_2), 13), prime32_3), 16)

\* (v1<<1 | v1>>31) + (v2<<7 | v2>>25) + (v3<<12 | v3>>20) + (v4<<18 | v4>>14)
Merge32(v1, v2, v3, v4) ==
    Add(Add(Add(ShlOrShr(v1, 1, 31), ShlOrShr(v2, 7, 25)), ShlOrShr(v3, 12, 20)),
        ShlOrShr(v4, 18, 14))

\* a variant of Sum32 with the test totalLen > 16: after exactly one stripe
\* the lanes are not merged
Sum32Strict(x) ==
    Avalanche32(Tail32(Add(FromNat(x.totalLen, 4),
                           IF x.totalLen > 16
                           THEN Merge32(x.v1, x.v2, x.v3, x.v4)
                           ELSE Add(x.seed, prime32_5)),
                       x.buf, x.bufused))

\* xxHash.Sum32 (it assigns no field of xxh): h32 := uint32(xxh.totalLen), the
\* merged lanes or seed + prime32_5 added, the tail loops over
\* buf[0:bufused], the avalanche
Sum32(x) ==
    Avalanche32(Tail32(Add(FromNat(x.totalLen, 4),
                           IF x.totalLen >= 16
                           THEN Merge32(x.v1, x.v2, x.v3, x.v4)
                           ELSE Add(x.seed, prime32_5)),
                       x.buf, x.bufused))

\* append(b, byte(h32), byte(h32>>8), byte(h32>>16), byte(h32>>24))
Append32(b, h32) ==
    b \o <<Shr(h32, 0)[1], Shr(h32, 8)[1], Shr(h32, 16)[1], Shr(h32, 24)[1]>>

\* a variant of Sum that appends the most significant byte first
SumB32BigEndian(x, b) ==
    LET h32 == Sum32(x)
    IN  b \o <<Shr(h32, 24)[1], Shr(h32, 16)[1], Shr(h32, 8)[1], Shr(h32, 0)[1]>>

\* xxHash.Sum, value receiver: works on a copy of the struct
SumB32(x, b) == Append32(b, Sum32(x))

\* xxHash.Size
Size32 == 4

\* xxHash.BlockSize
BlockSize32 == 1

\* the stripe loop of Checksum on the local lanes v; yields the lanes and p
RECURSIVE ChecksumLoop32(_, _, _, _)
ChecksumLoop32(v, input, p, n) ==
    IF p <= n - 16
    THEN ChecksumLoop32(Stripe32(v, input, p), input, p + 16, n)
    ELSE [v |-> v, p |-> p]

\* the end of Checksum: `if n == 0 { } else { the tail loops }`, the avalanche
ChecksumEnd32(h, input, n) ==
    Avalanche32(IF n = 0 THEN h ELSE Tail32(h, input, n))

\* the end of the branch n >= 16 of Checksum, from the lanes and p the stripe
\* loop has left in lp: input = input[p:]; n -= p; h32 += the merged lanes;
\* then the end of Checksum
ChecksumMerge32(lp, input, n) ==
    ChecksumEnd32(Add(FromNat(n, 4), Merge32(lp.v.v1, lp.v.v2, lp.v.v3, lp.v.v4)),
                  Slice(input, lp.p, n), n - lp.p)

\* Checksum(input, seed): h32 := uint32(n), then either branch of `if n < 16`
Checksum32(input, seed) ==
    IF Len(input) < 16
    THEN ChecksumEnd32(Add(FromNat(Len(input), 4), Add(seed, prime32_5)),
                       input, Len(input))
    ELSE ChecksumMerge32(
             ChecksumLoop32([v1 |-> Add(Add(seed, prime32_1), prime32_2),
                             v2 |-> Add(seed, prime32_2),
                             v3 |-> seed,
                             v4 |-> Sub(seed, prime32_1)], input, 0, Len(input)),
             input, Len(input))

\* ------------------------------------------------------------------------
\* Package xxHash64
\* ------------------------------------------------------------------------

prime64_1 == <<135, 202, 235, 133, 177, 121, 55, 158>>  \* 11400714785074694791
prime64_2 == <<79, 235, 212, 39, 61, 174, 178, 194>>    \* 14029467366897019727
prime64_3 == <<249, 121, 55, 158, 177, 103, 86, 22>>    \* 1609587929392839161
prime64_4 == <<99, 174, 178, 194, 119, 202, 235, 133>>  \* 9650029242287828579
prime64_5 == <<197, 103, 86, 22, 47, 235, 212, 39>>     \* 2870177450012600261

\* the byte orders a host can have
Hosts == {"little", "big"}

\* *(*uint64)(unsafe.Pointer(&b[off])): the 8 bytes in the host's byte order
Raw64(b, off, host) ==
    IF host = "little"
    THEN <<b[off + 1], b[off + 2], b[off + 3], b[off + 4],
           b[off + 5], b[off + 6], b[off + 7], b[off + 8]>>
    ELSE <<b[off + 8], b[off + 7], b[off + 6], b[off + 5],
           b[off + 4], b[off + 3], b[off + 2], b[off + 1]>>

\* uint64(*(*uint32)(unsafe.Pointer(&b[off])))
Raw32(b, off, host) ==
    IF host = "little"
    THEN <<b[off + 1], b[off + 2], b[off + 3], b[off + 4], 0, 0, 0, 0>>
    ELSE <<b[off + 4], b[off + 3], b[off + 2], b[off + 1], 0, 0, 0, 0>>

\* uint64(v) of a byte v
U64(v) == FromNat(v, 8)

\* uint64(b[off+7])<<56 | uint64(b[off+6])<<48 | uint64(b[off+5])<<40 |
\* uint64(b[off+4])<<32 | uint64(b[off+3])<<24 | uint64(b[off+2])<<16 |
\* uint64(b[off+1])<<8 | uint64(b[off]), off being 0-based as in the code
Shift64(b, off) ==
    Or(Or(Or(Or(Or(Or(Or(Shl(U64(b[off + 7 + 1]), 56),
                         Shl(U64(b[off + 6 + 1]), 48)),
                      Shl(U64(b[off + 5 + 1]), 40)),
                   Shl(U64(b[off + 4 + 1]), 32)),
                Shl(U64(b[off + 3 + 1]), 24)),
             Shl(U64(b[off + 2 + 1]), 16)),
          Shl(U64(b[off + 1 + 1]), 8)),
       U64(b[off + 1]))

\* a variant of the shifted 4-byte read that shifts the first byte to the top:
\* uint64(b[off])<<24 | uint64(b[off+1])<<16 | uint64(b[off+2])<<8 | uint64(b[off+3])
Shift32Swapped(b, off) ==
    Or(Or(Or(Shl(U64(b[off + 1]), 24),
             Shl(U64(b[off + 1 + 1]), 16)),
          Shl(U64(b[off + 2 + 1]), 8)),
       U64(b[off + 3 + 1]))

\* uint64(b[off+3])<<24 | uint64(b[off+2])<<16 | uint64(b[off+1])<<8 | uint64(b[off])
Shift32(b, off) ==
    Or(Or(Or(Shl(U64(b[off + 3 + 1]), 24),
             Shl(U64(b[off + 2 + 1]), 16)),
          Shl(U64(b[off + 1 + 1]), 8)),
       U64(b[off + 1]))

\* init(): for i, v := range b { expected += uint64(v) << (uint(i) * 8) }
RECURSIVE InitExpected(_, _, _)
InitExpected(b, i, expected) ==
    IF i < Len(b)
    THEN InitExpected(b, i + 1, Add(expected, Shl(U64(b[i + 1]), i * 8)))
    ELSE expected

\* init(): littleEndian = actual == expected, actual being the raw read of
\* b = {1, 2, 3, 4, 5, 6, 7, 8}
InitLittleEndian(host) ==
    Raw64(<<1, 2, 3, 4, 5, 6, 7, 8>>, 0, host)
        = InitExpected(<<1, 2, 3, 4, 5, 6, 7, 8>>, 0, FromNat(0, 8))

\* a variant of the round that rotates left by 33
Round64Rot33(v, w) ==
    Mul(ShlOrShr(Add(v, Mul(w, prime64_2)), 33, 31), prime64_1)

\* p64 := v + w*prime64_2 ; v = (p64<<31 | p64>>33) * prime64_1
Round64(v, w) ==
    Mul(ShlOrShr(Add(v, Mul(w, prime64_2)), 31, 33), prime64_1)

\* the loop body of the branch `if littleEndian`, c holding the lanes (x) and
\* ptr: four times a round on the raw word at ptr, then ptr += 8
StripeRaw64(c, b, host) ==
    [x   |-> [c.x EXCEPT !.v1 = Round64(c.x.v1, Raw64(b, c.ptr, host)),
                         !.v2 = Round64(c.x.v2, Raw64(b, c.ptr + 8, host)),
                         !.v3 = Round64(c.x.v3, Raw64(b, c.ptr + 8 + 8, host)),
                         !.v4 = Round64(c.x.v4, Raw64(b, c.ptr + 8 + 8 + 8, host))],
     ptr |-> c.ptr + 8 + 8 + 8 + 8]

\* the loop body of the branch `else`, sub being input[p : p+32]: the rounds
\* on the words shifted together out of sub[0+..], sub[8+..], sub[16+..],
\* sub[24+..]
StripeShift64(x, sub) ==
    [x EXCEPT !.v1 = Round64(x.v1, Shift64(sub, 0)),
              !.v2 = Round64(x.v2, Shift64(sub, 8)),
              !.v3 = Round64(x.v3, Shift64(sub, 16)),
              !.v4 = Round64(x.v4, Shift64(sub, 24))]

\* the carry block, branch `if littleEndian`: ptr := &xxh.buf[p] with p = 0,
\* the rounds on the raw words at ptr, ptr + 8, ptr + 16, ptr + 24
CarryRaw64(x, ptr, host) ==
    [x EXCEPT !.v1 = Round64(x.v1, Raw64(x.buf, ptr, host)),
              !.v2 = Round64(x.v2, Raw64(x.buf, ptr + 8, host)),
              !.v3 = Round64(x.v3, Raw64(x.buf, ptr + 16, host)),
              !.v4 = Round64(x.v4, Raw64(x.buf, ptr + 24, host))]

\* the carry block, branch `else`: the rounds on the words shifted together
\* out of xxh.buf[0+..], xxh.buf[8+..], xxh.buf[16+..], xxh.buf[24+..]
CarryShift64(x) ==
    [x EXCEPT !.v1 = Round64(x.v1, Shift64(x.buf, 0)),
              !.v2 = Round64(x.v2, Shift64(x.buf, 8)),
              !.v3 = Round64(x.v3, Shift64(x.buf, 16)),
              !.v4 = Round64(x.v4, Shift64(x.buf, 24))]

\* a variant of Reset that leaves bufused as it is: the carry bytes of before
\* the Reset stay in use
Reset64KeepCarry(x) ==
    [x EXCEPT !.v1 = Add(Add(x.seed, prime64_1), prime64_2),
              !.v2 = Add(x.seed, prime64_2),
              !.v3 = x.seed,
              !.v4 = Sub(x.seed, prime64_1),
              !.totalLen = 0]

\* a variant of Reset that takes the lane v3 as the seed from then on
Reset64Reseed(x) ==
    [x EXCEPT !.seed = x.v3,
              !.v1 = Add(Add(x.v3, prime64_1), prime64_2),
              !.v2 = Add(x.v3, prime64_2),
              !.v4 = Sub(x.v3, prime64_1),
              !.totalLen = 0,
              !.bufused = 0]

\* xxHash.Reset
Reset64(x) ==
    [x EXCEPT !.v1 = Add(Add(x.seed, prime64_1), prime64_2),
              !.v2 = Add(x.seed, prime64_2),
              !.v3 = x.seed,
              !.v4 = Sub(x.seed, prime64_1),
              !.totalLen = 0,
              !.bufused = 0]

\* a variant of New that returns the struct literal without calling Reset
New64NoReset(seed) ==
    [seed |-> seed, v1 |-> FromNat(0, 8), v2 |-> FromNat(0, 8),
     v3 |-> FromNat(0, 8), v4 |-> FromNat(0, 8), totalLen |-> 0,
     buf |-> ZeroBuf(32), bufused |-> 0]

\* New: &xxHash{seed: seed} (every other field zero), then Reset
New64(seed) ==
    Reset64([seed |-> seed, v1 |-> FromNat(0, 8), v2 |-> FromNat(0, 8),
             v3 |-> FromNat(0, 8), v4 |-> FromNat(0, 8), totalLen |-> 0,
             buf |-> ZeroBuf(32), bufused |-> 0])

\* a variant of the stripe loop with the test p < n: a stripe that ends exactly
\* at the end of the input is left to the carry
RECURSIVE WriteLoop64Strict(_, _, _, _, _, _)
WriteLoop64Strict(x, input, p, n, le, host) ==
    IF p < n - 32
    THEN WriteLoop64Strict(IF le
                           THEN StripeRaw64([x |-> x, ptr |-> p], input, host).x
                           ELSE StripeShift64(x, Slice(input, p, p + 32)),
                           input, p + 32, n, le, host)
    ELSE [x |-> x, p |-> p]

\* branch `else if littleEndian`: for n := n - 32; p <= n; p += 32 { ... },
\* c holding the struct and ptr; yields the struct and p
RECURSIVE WriteLoopRaw64(_, _, _, _, _)
WriteLoopRaw64(c, input, p, n, host) ==
    IF p <= n - 32
    THEN WriteLoopRaw64(StripeRaw64(c, input, host), input, p + 32, n, host)
    ELSE [x |-> c.x, p |-> p]

\* branch `else`: for n := n - 32; p <= n; p += 32 { sub := input[p : p+32]; ... }
RECURSIVE WriteLoopShift64(_, _, _, _)
WriteLoopShift64(x, input, p, n) ==
    IF p <= n - 32
    THEN WriteLoopShift64(StripeShift64(x, Slice(input, p, p + 32)), input, p + 32, n)
    ELSE [x |-> x, p |-> p]

\* if p > n-32 { } else if littleEndian { ptr := &input[p]; loop } else { loop };
\* yields the struct and p
WriteLoop64(x, input, p, n, le, host) ==
    IF p > n - 32
    THEN [x |-> x, p |-> p]
    ELSE IF le
         THEN WriteLoopRaw64([x |-> x, ptr |-> p], input, p, n, host)
         ELSE WriteLoopShift64(x, input, p, n)

\* the branch `if n < r`: the input joins the carry bytes
WriteShort64(x, input) ==
    [x EXCEPT !.buf = Copy(x.buf, x.bufused, input),
              !.bufused = x.bufused + Len(input)]

\* the carry block once copy(xxh.buf[xxh.bufused:], input[:r]) has made the
\* carry b1: the carry is mixed into the lanes on the branch taken, with p = 0,
\* and bufused = 0
MixCarry64(x, b1, le, host) ==
    [(IF le
      THEN CarryRaw64([x EXCEPT !.buf = b1], 0, host)
      ELSE CarryShift64([x EXCEPT !.buf = b1])) EXCEPT !.bufused = 0]

\* the block `if m > 0`: input[:r] completes the carry, the carry is mixed into
\* the lanes, p = r and bufused = 0; yields the struct and p
WriteCarry64(x, input, r, le, host) ==
    [x |-> MixCarry64(x, Copy(x.buf, x.bufused, Slice(input, 0, r)), le, host),
     p |-> r]

\* the stripe loop over input from the struct and p that c holds
WriteStripes64(c, input, le, host) ==
    WriteLoop64(c.x, input, c.p, Len(input), le, host)

\* copy(xxh.buf[xxh.bufused:], input[p:]); xxh.bufused += len(input) - p, from
\* the struct and p that lp holds
WriteRest64(lp, input) ==
    [lp.x EXCEPT !.buf = Copy(lp.x.buf, lp.x.bufused, Slice(input, lp.p, Len(input))),
                 !.bufused = lp.x.bufused + (Len(input) - lp.p)]

\* the statements after the branch `if n < r`: p := 0, the carry block, the
\* stripe loop over input, and the copy of input[p:] into the carry
WriteLong64(x, input, m, r, le, host) ==
    WriteRest64(WriteStripes64(IF m > 0 THEN WriteCarry64(x, input, r, le, host)
                                        ELSE [x |-> x, p |-> 0],
                               input, le, host), input)

\* the branches of Write on the struct x0 that has the new totalLen
WriteBranch64(x0, input, n, m, r, le, host) ==
    IF n < r THEN WriteShort64(x0, input) ELSE WriteLong64(x0, input, m, r, le, host)

\* a variant of Write that returns the number of bytes it took past the carry
Write64Partial(x, input, le, host) ==
    [x   |-> WriteBranch64([x EXCEPT !.totalLen = x.totalLen + Len(input)], input,
                           Len(input), x.bufused, Len(x.buf) - x.bufused, le, host),
     n   |-> IF Len(input) < Len(x.buf) - x.bufused \/ x.bufused = 0
             THEN Len(input)
             ELSE Len(input) - (Len(x.buf) - x.bufused),
     err |-> "nil"]

\* xxHash.Write: the state after the call and the returned (n, err)
Write64(x, input, le, host) ==
    [x   |-> WriteBranch64([x EXCEPT !.totalLen = x.totalLen + Len(input)], input,
                           Len(input), x.bufused, Len(x.buf) - x.bufused, le, host),
     n   |-> Len(input),
     err |-> "nil"]

\* (v1<<1 | v1>>63) + (v2<<7 | v2>>57) + (v3<<12 | v3>>52) + (v4<<18 | v4>>46)
Merge64(v1, v2, v3, v4) ==
    Add(Add(Add(ShlOrShr(v1, 1, 63), ShlOrShr(v2, 7, 57)), ShlOrShr(v3, 12, 52)),
        ShlOrShr(v4, 18, 46))

\* with v the lane as `v *= prime64_2` has left it:
\* h64 ^= (v<<31 | v>>33) * prime64_1; h64 = h64*prime64_1 + prime64_4
MergeMix64(h, v) ==
    [v |-> v,
     h |-> Add(Mul(Xor(h, Mul(ShlOrShr(v, 31, 33), prime64_1)), prime64_1), prime64_4)]

\* v *= prime64_2; h64 ^= (v<<31 | v>>33) * prime64_1; h64 = h64*prime64_1 + prime64_4
\* yields the lane as left by the multiplication, and h64
MergeRound64(h, v) == MergeMix64(h, Mul(v, prime64_2))

\* the totalLen >= 32 branch after its four rounds r1..r4: h64 with the length
\* added and the four lanes as the rounds have left them
MergeDone64(r1, r2, r3, r4, len) ==
    [h |-> Add(r4.h, FromNat(len, 8)),
     v1 |-> r1.v, v2 |-> r2.v, v3 |-> r3.v, v4 |-> r4.v]

\* the round on v4 after the rounds r1..r3
MergeV4(r1, r2, r3, v4, len) ==
    MergeDone64(r1, r2, r3, MergeRound64(r3.h, v4), len)

\* the round on v3 after the rounds r1, r2
MergeV3(r1, r2, v3, v4, len) ==
    MergeV4(r1, r2, MergeRound64(r2.h, v3), v4, len)

\* the round on v2 after the round r1
MergeV2(r1, v2, v3, v4, len) ==
    MergeV3(r1, MergeRound64(r1.h, v2), v3, v4, len)

\* the totalLen >= 32 branch: the merge of the lanes, then the rounds on v1,
\* v2, v3 and v4 in turn; yields h64 and the four lanes as the statements
\* leave them
MergeLanes64(v1, v2, v3, v4, len) ==
    MergeV2(MergeRound64(Merge64(v1, v2, v3, v4), v1), v2, v3, v4, len)

\* branch `if littleEndian`: for n := n - 8; p <= n; p += 8 {
\* p64 := *(*uint64)(unsafe.Pointer(ptr)) * prime64_2;
\* h64 ^= ((p64 << 31) | (p64 >> 33)) * prime64_1;
\* h64 = ((h64<<27)|(h64>>37))*prime64_1 + prime64_4; ptr += 8 };
\* yields h64, p and ptr
RECURSIVE TailWordsRaw64(_, _, _, _, _, _)
TailWordsRaw64(h, b, p, ptr, n, host) ==
    IF p <= n - 8
    THEN TailWordsRaw64(
             Add(Mul(ShlOrShr(Xor(h, Mul(ShlOrShr(Mul(Raw64(b, ptr, host), prime64_2),
                                                  31, 33), prime64_1)),
                              27, 37), prime64_1), prime64_4),
             b, p + 8, ptr + 8, n, host)
    ELSE [h |-> h, p |-> p, ptr |-> ptr]

\* branch `else`: for n := n - 8; p <= n; p += 8 {
\* p64 := (uint64(b[p+7])<<56 | ... | uint64(b[p])) * prime64_2;
\* h64 ^= ((p64 << 31) | (p64 >> 33)) * prime64_1;
\* h64 = ((h64<<27)|(h64>>37))*prime64_1 + prime64_4 }; yields h64 and p
RECURSIVE TailWordsShift64(_, _, _, _)
TailWordsShift64(h, b, p, n) ==
    IF p <= n - 8
    THEN TailWordsShift64(
             Add(Mul(ShlOrShr(Xor(h, Mul(ShlOrShr(Mul(Shift64(b, p), prime64_2),
                                                  31, 33), prime64_1)),
                              27, 37), prime64_1), prime64_4),
             b, p + 8, n)
    ELSE [h |-> h, p |-> p]

\* branch `if littleEndian`: if p+4 <= n { p32 := *(*uint32)(unsafe.Pointer(ptr));
\* h64 ^= uint64(p32) * prime64_1;
\* h64 = ((h64<<23)|(h64>>41))*prime64_2 + prime64_3; p += 4; ptr += 4 }, from
\* the h64, p and ptr the word loop has left in t
TailWord32Raw64(t, b, n, host) ==
    IF t.p + 4 <= n
    THEN [h   |-> Add(Mul(ShlOrShr(Xor(t.h, Mul(Raw32(b, t.ptr, host), prime64_1)),
                                   23, 41), prime64_2), prime64_3),
          p   |-> t.p + 4,
          ptr |-> t.ptr + 4]
    ELSE t

\* branch `else`: if p+4 <= n {
\* h64 ^= (uint64(b[p+3])<<24 | ... | uint64(b[p])) * prime64_1;
\* h64 = ((h64<<23)|(h64>>41))*prime64_2 + prime64_3; p += 4 }, from the h64
\* and p the word loop has left in t
TailWord32Shift64(t, b, n) ==
    IF t.p + 4 <= n
    THEN [h |-> Add(Mul(ShlOrShr(Xor(t.h, Mul(Shift32(b, t.p), prime64_1)),
                                 23, 41), prime64_2), prime64_3),
          p |-> t.p + 4]
    ELSE t

\* a variant of the byte loop that multiplies each byte by prime64_1
RECURSIVE TailBytes64Prime1(_, _, _, _)
TailBytes64Prime1(h, b, p, n) ==
    IF p < n
    THEN TailBytes64Prime1(Mul(ShlOrShr(Xor(h, Mul(FromNat(b[p + 1], 8), prime64_1)), 11, 53),
                               prime64_1), b, p + 1, n)
    ELSE h

\* for ; p < n; p++ { h64 ^= uint64(b[p]) * prime64_5;
\* h64 = ((h64 << 11) | (h64 >> 53)) * prime64_1 }
RECURSIVE TailBytes64(_, _, _, _)
TailBytes64(h, b, p, n) ==
    IF p < n
    THEN TailBytes64(Mul(ShlOrShr(Xor(h, Mul(FromNat(b[p + 1], 8), prime64_5)), 11, 53),
                         prime64_1), b, p + 1, n)
    ELSE h

\* the byte loop from the h64 and p the 4-byte step has left in t
TailRest64(t, b, n) == TailBytes64(t.h, b, t.p, n)

\* the three tail passes over b[0:n] on the branch taken, ptr := &b[0]
Tail64(h, b, n, le, host) ==
    IF le
    THEN TailRest64(TailWord32Raw64(TailWordsRaw64(h, b, 0, 0, n, host), b, n, host),
                    b, n)
    ELSE TailRest64(TailWord32Shift64(TailWordsShift64(h, b, 0, n), b, n), b, n)

\* h64 ^= h64 >> 33; h64 *= prime64_2; h64 ^= h64 >> 29; h64 *= prime64_3;
\* h64 ^= h64 >> 32
Avalanche64(h) ==
    XorShr(Mul(XorShr(Mul(XorShr(h, 33), prime64_2), 29), prime64_3), 32)

\* Sum64 in its totalLen >= 32 branch, mg being h64 and the lanes as the
\* statements xxh.v1 *= prime64_2 ... xxh.v4 *= prime64_2 have left them: the
\* receiver's lanes are assigned
Sum64Merged(x, mg, le, host) ==
    [x |-> [x EXCEPT !.v1 = mg.v1, !.v2 = mg.v2, !.v3 = mg.v3, !.v4 = mg.v4],
     h |-> Avalanche64(Tail64(mg.h, x.buf, x.bufused, le, host))]

\* xxHash.Sum64, pointer receiver: the returned value and the struct after the
\* call
Sum64(x, le, host) ==
    IF x.totalLen >= 32
    THEN Sum64Merged(x, MergeLanes64(x.v1, x.v2, x.v3, x.v4, x.totalLen), le, host)
    ELSE [x |-> x,
          h |-> Avalanche64(Tail64(Add(Add(x.seed, prime64_5), FromNat(x.totalLen, 8)),
                                   x.buf, x.bufused, le, host))]

\* append(b, byte(h64), byte(h64>>8), ..., byte(h64>>56))
Append64(b, h64) ==
    b \o <<Shr(h64, 0)[1], Shr(h64, 8)[1], Shr(h64, 16)[1], Shr(h64, 24)[1],
           Shr(h64, 32)[1], Shr(h64, 40)[1], Shr(h64, 48)[1], Shr(h64, 56)[1]>>

\* xxHash.Sum, value receiver: Sum64 runs on a copy of the struct, which is
\* dropped on return
SumB64(x, b, le, host) == Append64(b, Sum64(x, le, host).h)

\* xxHash.Size
Size64 == 8

\* xxHash.BlockSize
BlockSize64 == 1

\* Checksum, branch `else if littleEndian`: for n := n - 32; p <= n; p += 32
\* { ... } on the local lanes and ptr that c holds; yields the lanes and p
RECURSIVE ChecksumLoopRaw64(_, _, _, _, _)
ChecksumLoopRaw64(c, input, p, n, host) ==
    IF p <= n - 32
    THEN ChecksumLoopRaw64(StripeRaw64(c, input, host), input, p + 32, n, host)
    ELSE [v |-> c.x, p |-> p]

\* Checksum, branch `else`: for n := n - 32; p <= n; p += 32 {
\* sub := input[p : p+32]; ... } on the local lanes v
RECURSIVE ChecksumLoopShift64(_, _, _, _)
ChecksumLoopShift64(v, input, p, n) ==
    IF p <= n - 32
    THEN ChecksumLoopShift64(StripeShift64(v, Slice(input, p, p + 32)), input, p + 32, n)
    ELSE [v |-> v, p |-> p]

\* the stripe loop of Checksum on the local lanes v: if n < 32 { } else if
\* littleEndian { ptr := &input[0]; loop } else { loop }; yields the lanes and p
ChecksumLoop64(v, input, p, n, le, host) ==
    IF n < 32
    THEN [v |-> v, p |-> p]
    ELSE IF le
         THEN ChecksumLoopRaw64([x |-> v, ptr |-> 0], input, p, n, host)
         ELSE ChecksumLoopShift64(v, input, p, n)

\* the end of Checksum: `if n == 0 { } else { the tail passes }`, the avalanche
ChecksumEnd64(h, input, n, le, host) ==
    Avalanche64(IF n = 0 THEN h ELSE Tail64(h, input, n, le, host))

\* the end of the branch n >= 32 of Checksum, from the lanes and p the stripe
\* loop has left in lp: the merge and the four rounds on the local lanes,
\* input = input[p:]; n -= p; then the end of Checksum
ChecksumMerge64(lp, input, n, le, host) ==
    ChecksumEnd64(MergeLanes64(lp.v.v1, lp.v.v2, lp.v.v3, lp.v.v4, n).h,
                  Slice(input, lp.p, n), n - lp.p, le, host)

\* Checksum(input, seed): either branch of `if n >= 32`
Checksum64(input, seed, le, host) ==
    IF Len(input) >= 32
    THEN ChecksumMerge64(
             ChecksumLoop64([v1 |-> Add(Add(seed, prime64_1), prime64_2),
                             v2 |-> Add(seed, prime64_2),
                             v3 |-> seed,
                             v4 |-> Sub(seed, prime64_1)],
                            input, 0, Len(input), le, host),
             input, Len(input), le, host)
    ELSE ChecksumEnd64(Add(Add(seed, prime64_5), FromNat(Len(input), 8)),
                       input, Len(input), le, host)

\* ------------------------------------------------------------------------
\* The index expressions of both packages: every slice expression s[lo:hi],
\* index expression s[i] and raw read of k bytes at &s[i] is a record
\* [len, lo, hi] of the length of s and the range lo .. hi - 1 it covers
\* ------------------------------------------------------------------------

\* the four words of wd bytes read out of the stripe that starts at index p
StripeWords(len, p, wd) ==
    {[len |-> len, lo |-> p + wd * k, hi |-> p + wd * k + wd] : k \in 0..3}

\* a variant of the stripe loop's test that lets the last window start one
\* byte later than a whole stripe allows
RECURSIVE LoopWindowsLate(_, _, _)
LoopWindowsLate(p, n, s) ==
    IF p <= n - s + 1
    THEN {[len |-> n, lo |-> p, hi |-> p + s]} \cup LoopWindowsLate(p + s, n, s)
    ELSE {}

\* for n := n - s; p <= n; p += s { ... }: the stripe windows input[p : p+s]
\* (sub := input[p : p+32], resp. the s bytes at ptr) the loop reads
RECURSIVE LoopWindows(_, _, _)
LoopWindows(p, n, s) ==
    IF p <= n - s
    THEN {[len |-> n, lo |-> p, hi |-> p + s]} \cup LoopWindows(p + s, n, s)
    ELSE {}

\* the value of p when the stripe loop ends
RECURSIVE LoopEnd(_, _, _)
LoopEnd(p, n, s) == IF p <= n - s THEN LoopEnd(p + s, n, s) ELSE p

\* Write, branch n < r: copy(xxh.buf[m:], input) and the bytes it writes
WriteShortAccesses(cap, m, n) ==
    {[len |-> cap, lo |-> m, hi |-> cap], [len |-> cap, lo |-> m, hi |-> m + n]}

\* Write, block `if m > 0`: input[:r], xxh.buf[xxh.bufused:], the bytes the
\* copy writes, and the four words read out of buf
WriteCarryAccesses(cap, m, n, r, wd) ==
    {[len |-> n, lo |-> 0, hi |-> r],
     [len |-> cap, lo |-> m, hi |-> cap],
     [len |-> cap, lo |-> m, hi |-> m + r]} \cup StripeWords(cap, 0, wd)

\* Write, the stripe loop from p: &input[p] and the windows, out of each of
\* which the four words at the offsets 0, wd, 2 wd, 3 wd are read
WriteLoopAccesses(p, n, s) ==
    IF p > n - s
    THEN {}
    ELSE {[len |-> n, lo |-> p, hi |-> p + 1]} \cup LoopWindows(p, n, s)

\* Write, the end: input[p:], xxh.buf[xxh.bufused:] with bufused = 0, and the
\* bytes the copy writes
WriteRestAccesses(cap, p, n) ==
    {[len |-> n, lo |-> p, hi |-> n],
     [len |-> cap, lo |-> 0, hi |-> cap],
     [len |-> cap, lo |-> 0, hi |-> n - p]}

\* Write after the branch n < r, p being r after the carry block and 0 without
WriteLongAccesses(cap, m, n, p, wd) ==
    (IF m > 0 THEN WriteCarryAccesses(cap, m, n, cap - m, wd) ELSE {})
    \cup WriteLoopAccesses(p, n, cap)
    \cup WriteRestAccesses(cap, LoopEnd(p, n, cap), n)

\* xxHash.Write of either package on a struct with bufused = m, buf of cap
\* bytes and words of wd bytes, for an input of n bytes
WriteAccesses(cap, m, n, wd) ==
    IF n < cap - m
    THEN WriteShortAccesses(cap, m, n)
    ELSE WriteLongAccesses(cap, m, n, IF m > 0 THEN cap - m ELSE 0, wd)

\* the tail passes over the first n bytes of a slice: the words b[p : p+wd] of
\* the word loop, in xxHash64 the 4-byte word of `if p+4 <= n`, and the bytes
\* b[p] of the byte loop; each must lie within the n bytes
TailAccesses(n, wd) ==
    LoopWindows(0, n, wd)
    \cup (IF wd = 8 /\ LoopEnd(0, n, 8) + 4 <= n
          THEN {[len |-> n, lo |-> LoopEnd(0, n, 8), hi |-> LoopEnd(0, n, 8) + 4]}
          ELSE {})
    \cup {[len |-> n, lo |-> p, hi |-> p + 1] :
             p \in (IF wd = 8 /\ LoopEnd(0, n, 8) + 4 <= n
                    THEN LoopEnd(0, n, 8) + 4
                    ELSE LoopEnd(0, n, wd)) .. (n - 1)}

\* Sum32 / Sum64 on a struct with bufused = n: &xxh.buf[0] and the tail passes
\* over xxh.buf[0 : n]
SumAccesses(cap, n, wd) ==
    {[len |-> cap, lo |-> 0, hi |-> 1], [len |-> cap, lo |-> 0, hi |-> n]}
    \cup TailAccesses(n, wd)

\* Checksum on an input of n bytes, branch of a whole stripe or more:
\* &input[0], the stripe windows, input = input[p:]
ChecksumLoopAccesses(n, s) ==
    {[len |-> n, lo |-> 0, hi |-> 1], [len |-> n, lo |-> LoopEnd(0, n, s), hi |-> n]}
    \cup LoopWindows(0, n, s)

\* Checksum, the end on the n bytes left: nothing for n = 0, else &input[0]
\* and the tail passes
ChecksumTailAccesses(n, wd) ==
    IF n = 0 THEN {} ELSE {[len |-> n, lo |-> 0, hi |-> 1]} \cup TailAccesses(n, wd)

\* Checksum of either package on an input of n bytes, stripes of s bytes
ChecksumAccesses(n, s, wd) ==
    IF n >= s
    THEN ChecksumLoopAccesses(n, s) \cup ChecksumTailAccesses(n - LoopEnd(0, n, s), wd)
    ELSE ChecksumTailAccesses(n, wd)

\* ------------------------------------------------------------------------
\* The state machine: one hash object of either package and its caller
\* ------------------------------------------------------------------------

VARIABLES
    bits,          \* 32: the object is an xxHash32.xxHash; 64: an xxHash64.xxHash
    xxh,           \* the struct: seed, v1, v2, v3, v4, totalLen, buf, bufused
    littleEndian,  \* xxHash64's package variable, set by init()
    host,          \* byte order of the machine the program runs on
    ret,           \* what the last call returned
    written,       \* history: the bytes passed to Write since New or the last Reset
    fed,           \* history: the number of bytes passed to Write since New
    nsum,          \* history: Sum32/Sum64 calls since New or the last Reset
    nreset,        \* history: Reset calls since New
    peer,          \* a second object of the same package and what its last call
                   \* returned: [xxh, ret]; NoPeer where the program has one object
    calls          \* history of the program with two objects: the calls made on
                   \* the first and on the second object, in the order made

vars == <<bits, xxh, littleEndian, host, ret, written, fed, nsum, nreset, peer, calls>>

\* bounds of the exploration
MaxTotal32 == 36   \* most bytes an xxHash32 object is fed
MaxTotal64 == 68   \* most bytes an xxHash64 object is fed
MaxSums == 2       \* most Sum32/Sum64 calls between two Resets
MaxResets == 1     \* most Reset calls on an object
MaxShort == 8      \* most bytes an object is fed by inputs shorter than a stripe
MaxCalls == 3      \* most calls two goroutines make on their objects after New
MaxInput == 70     \* longest input whose index expressions are examined

\* the seeds an object is created with
Seeds32 == {FromNat(0, 4), <<255, 255, 255, 255>>}
Seeds64 == {FromNat(0, 8), <<255, 255, 255, 255, 255, 255, 255, 255>>}

\* the lengths of the inputs of Write: empty, a cut inside the first stripe
\* (the split tests' 10 of 16 and 20 of 32), one stripe less one byte, one
\* stripe, one stripe and one byte, two stripes and one byte
ChunkLens32 == {0, 10, 15, 16, 17, 33}
ChunkLens64 == {0, 20, 31, 32, 33, 65}

\* the further length of an input of Write on an object that carries m bytes:
\* where the carry is one stripe less one byte, one stripe and two bytes, an
\* input that completes the carry, runs the stripe loop and leaves a byte (the
\* split tests' second piece does the three in one call)
CarryLens32(m) == IF m = 15 THEN {18} ELSE {}
CarryLens64(m) == IF m = 31 THEN {34} ELSE {}

\* the stream the caller feeds, which goes on across a Reset: "abcd" followed
\* by bytes with high and low bits, repeated
Pattern == <<97, 98, 99, 100, 255, 0, 128>>
DataAt(i) == Pattern[(i % Len(Pattern)) + 1]

\* the next n bytes of the stream
Input(n) == [i \in 1..n |-> DataAt(fed + i - 1)]

\* the byte slices b handed to Sum(b)
Prefixes == {<<1, 254>>}

\* the program has made one object only
NoPeer == [xxh |-> "none", ret |-> [op |-> "none"]]
NoCalls == <<<<>>, <<>>>>

Init32 ==
    /\ bits = 32
    /\ \E s \in Seeds32 : xxh = New32(s)
    /\ host = "little"
    /\ littleEndian = InitLittleEndian(host)
    /\ ret = [op |-> "New"]
    /\ written = <<>>
    /\ fed = 0
    /\ nsum = 0
    /\ nreset = 0
    /\ peer = NoPeer
    /\ calls = NoCalls

Init64 ==
    /\ bits = 64
    /\ \E s \in Seeds64 : xxh = New64(s)
    /\ host \in Hosts
    /\ littleEndian = InitLittleEndian(host)
    /\ ret = [op |-> "New"]
    /\ written = <<>>
    /\ fed = 0
    /\ nsum = 0
    /\ nreset = 0
    /\ peer = NoPeer
    /\ calls = NoCalls

Init == Init32 \/ Init64

\* xxh.Write(input), 32 bits
DoWrite32 ==
    /\ bits = 32
    /\ \E n \in ChunkLens32 \cup CarryLens32(xxh.bufused) :
        /\ fed + n <= MaxTotal32
        /\ \E r \in {Write32(xxh, Input(n))} :
              /\ xxh' = r.x
              /\ ret' = [op |-> "Write", n |-> r.n, err |-> r.err]
        /\ written' = written \o Input(n)
        /\ fed' = fed + n
    /\ UNCHANGED <<bits, littleEndian, host, nsum, nreset>>

\* xxh.Sum32()
DoSum32 ==
    /\ bits = 32
    /\ nsum < MaxSums
    /\ ret' = [op |-> "Sum32", h |-> Sum32(xxh)]
    /\ nsum' = nsum + 1
    /\ UNCHANGED <<bits, xxh, littleEndian, host, written, fed, nreset>>

\* xxh.Sum(b), 32 bits
DoSumB32 ==
    /\ bits = 32
    /\ \E b \in Prefixes : ret' = [op |-> "Sum", b |-> b, out |-> SumB32(xxh, b)]
    /\ UNCHANGED <<bits, xxh, littleEndian, host, written, fed, nsum, nreset>>

\* xxh.Reset(), 32 bits
DoReset32 ==
    /\ bits = 32
    /\ nreset < MaxResets
    /\ xxh' = Reset32(xxh)
    /\ ret' = [op |-> "Reset"]
    /\ written' = <<>>
    /\ nsum' = 0
    /\ nreset' = nreset + 1
    /\ UNCHANGED <<bits, littleEndian, host, fed>>

\* xxh.Size(), 32 bits
DoSize32 ==
    /\ bits = 32
    /\ ret' = [op |-> "Size", n |-> Size32]
    /\ UNCHANGED <<bits, xxh, littleEndian, host, written, fed, nsum, nreset>>

\* xxh.BlockSize(), 32 bits
DoBlockSize32 ==
    /\ bits = 32
    /\ ret' = [op |-> "BlockSize", n |-> BlockSize32]
    /\ UNCHANGED <<bits, xxh, littleEndian, host, written, fed, nsum, nreset>>

\* xxh.Write(input), 64 bits
DoWrite64 ==
    /\ bits = 64
    /\ \E n \in ChunkLens64 \cup CarryLens64(xxh.bufused) :
        /\ fed + n <= MaxTotal64
        /\ \E r \in {Write64(xxh, Input(n), littleEndian, host)} :
              /\ xxh' = r.x
              /\ ret' = [op |-> "Write", n |-> r.n, err |-> r.err]
        /\ written' = written \o Input(n)
        /\ fed' = fed + n
    /\ UNCHANGED <<bits, littleEndian, host, nsum, nreset>>

\* xxh.Sum64(): the receiver is the object itself
DoSum64 ==
    /\ bits = 64
    /\ nsum < MaxSums
    /\ \E r \in {Sum64(xxh, littleEndian, host)} :
          /\ xxh' = r.x
          /\ ret' = [op |-> "Sum64", h |-> r.h]
    /\ nsum' = nsum + 1
    /\ UNCHANGED <<bits, littleEndian, host, written, fed, nreset>>

\* a variant of Sum(b) declared on the pointer receiver: Sum64 runs on the
\* object itself
DoSumB64Pointer ==
    /\ bits = 64
    /\ \E b \in Prefixes :
          ret' = [op |-> "Sum", b |-> b, out |-> SumB64(xxh, b, littleEndian, host)]
    /\ xxh' = Sum64(xxh, littleEndian, host).x
    /\ UNCHANGED <<bits, littleEndian, host, written, fed, nsum, nreset>>

\* xxh.Sum(b), 64 bits: the receiver is a copy of the object
DoSumB64 ==
    /\ bits = 64
    /\ \E b \in Prefixes :
          ret' = [op |-> "Sum", b |-> b, out |-> SumB64(xxh, b, littleEndian, host)]
    /\ UNCHANGED <<bits, xxh, littleEndian, host, written, fed, nsum, nreset>>

\* xxh.Reset(), 64 bits
DoReset64 ==
    /\ bits = 64
    /\ nreset < MaxResets
    /\ xxh' = Reset64(xxh)
    /\ ret' = [op |-> "Reset"]
    /\ written' = <<>>
    /\ nsum' = 0
    /\ nreset' = nreset + 1
    /\ UNCHANGED <<bits, littleEndian, host, fed>>

\* xxh.Size(), 64 bits
DoSize64 ==
    /\ bits = 64
    /\ ret' = [op |-> "Size", n |-> Size64]
    /\ UNCHANGED <<bits, xxh, littleEndian, host, written, fed, nsum, nreset>>

\* xxh.BlockSize(), 64 bits
DoBlockSize64 ==
    /\ bits = 64
    /\ ret' = [op |-> "BlockSize", n |-> BlockSize64]
    /\ UNCHANGED <<bits, xxh, littleEndian, host, written, fed, nsum, nreset>>

\* the calls on the one object of a program that has made an xxHash32 object
Next32 ==
    /\ \/ DoWrite32
       \/ DoSum32
       \/ DoSumB32
       \/ DoReset32
       \/ DoSize32
       \/ DoBlockSize32
    /\ UNCHANGED <<peer, calls>>

\* the calls on the one object of a program that has made an xxHash64 object
Next64 ==
    /\ \/ DoWrite64
       \/ DoSum64
       \/ DoSumB64
       \/ DoReset64
       \/ DoSize64
       \/ DoBlockSize64
    /\ UNCHANGED <<peer, calls>>

Next == Next32 \/ Next64

\* the lengths of the inputs of Write in a program that feeds an object less
\* than one stripe: the tests' "abc" and "abcd", and single bytes
ShortLens == {0, 1, 3, 4}

\* xxh.Write(input), 32 bits, input shorter than a stripe
DoShortWrite32 ==
    /\ bits = 32
    /\ \E n \in ShortLens :
        /\ fed + n <= MaxShort
        /\ \E r \in {Write32(xxh, Input(n))} :
              /\ xxh' = r.x
              /\ ret' = [op |-> "Write", n |-> r.n, err |-> r.err]
        /\ written' = written \o Input(n)
        /\ fed' = fed + n
    /\ UNCHANGED <<bits, littleEndian, host, nsum, nreset>>

\* xxh.Write(input), 64 bits, input shorter than a stripe
DoShortWrite64 ==
    /\ bits = 64
    /\ \E n \in ShortLens :
        /\ fed + n <= MaxShort
        /\ \E r \in {Write64(xxh, Input(n), littleEndian, host)} :
              /\ xxh' = r.x
              /\ ret' = [op |-> "Write", n |-> r.n, err |-> r.err]
        /\ written' = written \o Input(n)
        /\ fed' = fed + n
    /\ UNCHANGED <<bits, littleEndian, host, nsum, nreset>>

\* the calls of a program that feeds its one object a few bytes
NextShort ==
    /\ \/ DoShortWrite32
       \/ DoSum32
       \/ DoSumB32
       \/ DoReset32
       \/ DoShortWrite64
       \/ DoSum64
       \/ DoSumB64
       \/ DoReset64
    /\ UNCHANGED <<peer, calls>>

\* ------------------------------------------------------------------------
\* Two objects of one package, each called by its own goroutine
\* ------------------------------------------------------------------------

\* the struct that the i-th object is, and what the last call on it returned
Obj(i) == IF i = 1 THEN xxh ELSE peer.xxh
Returned(i) == IF i = 1 THEN ret ELSE peer.ret

\* a variant in which every handle is the first object: the assignments of a
\* call on the second object land in the first
SetObjShared(i, x, r) ==
    /\ xxh' = x
    /\ ret' = r
    /\ peer' = peer

\* the assignments of a call to the fields of its receiver, the i-th object,
\* and the value returned to its caller
SetObj(i, x, r) ==
    IF i = 1
    THEN /\ xxh' = x
         /\ ret' = r
         /\ peer' = peer
    ELSE /\ peer' = [xxh |-> x, ret |-> r]
         /\ xxh' = xxh
         /\ ret' = ret

\* New(seed) of the package
CallNew(b, seed) ==
    [xxh |-> IF b = 32 THEN New32(seed) ELSE New64(seed), ret |-> [op |-> "New"]]

\* the struct and the return value that a Write result r holds
WriteResult(r) == [xxh |-> r.x, ret |-> [op |-> "Write", n |-> r.n, err |-> r.err]]

\* x.Write(input) of the package
CallWrite(b, x, input, le, h) ==
    WriteResult(IF b = 32 THEN Write32(x, input) ELSE Write64(x, input, le, h))

\* the struct and the return value that a Sum64 result r holds
Sum64Result(r) == [xxh |-> r.x, ret |-> [op |-> "Sum64", h |-> r.h]]

\* x.Sum32(), resp. x.Sum64()
CallDigest(b, x, le, h) ==
    IF b = 32
    THEN [xxh |-> x, ret |-> [op |-> "Sum32", h |-> Sum32(x)]]
    ELSE Sum64Result(Sum64(x, le, h))

\* x.Sum(pre): the receiver is a copy in both packages
CallSumB(b, x, pre, le, h) ==
    [xxh |-> x,
     ret |-> [op |-> "Sum", b |-> pre,
              out |-> IF b = 32 THEN SumB32(x, pre) ELSE SumB64(x, pre, le, h)]]

\* x.Reset()
CallReset(b, x) ==
    [xxh |-> IF b = 32 THEN Reset32(x) ELSE Reset64(x), ret |-> [op |-> "Reset"]]

\* Checksum(input, seed) of the package, called by the goroutine that owns x:
\* a function of its arguments, x is not involved
CallChecksum(b, x, input, seed, le, h) ==
    [xxh |-> x,
     ret |-> [op |-> "Checksum",
              h |-> IF b = 32 THEN Checksum32(input, seed)
                              ELSE Checksum64(input, seed, le, h)]]

\* the call c on the struct x: the struct after it and what it returns
Call(b, x, c, le, h) ==
    CASE c.op = "New"      -> CallNew(b, c.seed)
      [] c.op = "Write"    -> CallWrite(b, x, c.input, le, h)
      [] c.op = "Digest"   -> CallDigest(b, x, le, h)
      [] c.op = "Sum"      -> CallSumB(b, x, c.b, le, h)
      [] c.op = "Reset"    -> CallReset(b, x)
      [] c.op = "Checksum" -> CallChecksum(b, x, c.input, c.seed, le, h)

\* the calls cs made one after the other by a program that makes no other
\* call, from the object and return value that r holds
RECURSIVE RunAlone(_, _, _, _, _)
RunAlone(b, r, cs, le, h) ==
    IF cs = <<>>
    THEN r
    ELSE RunAlone(b, Call(b, r.xxh, Head(cs), le, h), Tail(cs), le, h)

\* the 33 bytes the goroutine of the i-th object passes to Write
PairInput(i) == [k \in 1..33 |-> DataAt(3 * (i - 1) + k - 1)]

\* both objects made by New, of the same package: the first with seed 0, the
\* second with the same or another seed
InitPair ==
    /\ bits \in {32, 64}
    /\ host \in (IF bits = 32 THEN {"little"} ELSE Hosts)
    /\ littleEndian = InitLittleEndian(host)
    /\ \E s1 \in {FromNat(0, bits \div 8)},
          s2 \in (IF bits = 32 THEN Seeds32 ELSE Seeds64) :
          /\ xxh = CallNew(bits, s1).xxh
          /\ ret = CallNew(bits, s1).ret
          /\ peer = CallNew(bits, s2)
          /\ calls = <<<<[op |-> "New", seed |-> s1]>>, <<[op |-> "New", seed |-> s2]>>>>
    /\ written = <<>>
    /\ fed = 0
    /\ nsum = 0
    /\ nreset = 0

\* the goroutine of the i-th object makes the call c on it
PairCall(i, c) ==
    /\ Len(calls[1]) + Len(calls[2]) < MaxCalls + 2
    /\ \E r \in {Call(bits, Obj(i), c, littleEndian, host)} : SetObj(i, r.xxh, r.ret)
    /\ calls' = [calls EXCEPT ![i] = Append(@, c)]
    /\ UNCHANGED <<bits, littleEndian, host, written, fed, nsum, nreset>>

PairWrite(i) == PairCall(i, [input |-> PairInput(i), op |-> "Write"])
PairDigest(i) == PairCall(i, [op |-> "Digest"])
PairSumB(i) == \E b \in Prefixes : PairCall(i, [b |-> b, op |-> "Sum"])
PairReset(i) == PairCall(i, [op |-> "Reset"])
PairChecksum(i) ==
    PairCall(i, [input |-> PairInput(i), op |-> "Checksum", seed |-> Obj(i).seed])

\* one call of either goroutine: every interleaving of the two goroutines'
\* calls is a behaviour
NextPair ==
    \E i \in {1, 2} :
        \/ PairWrite(i)
        \/ PairDigest(i)
        \/ PairSumB(i)
        \/ PairReset(i)
        \/ PairChecksum(i)

\* an xxHash32 object
Spec32 == Init32 /\ [][Next32]_vars

\* an xxHash64 object
Spec64 == Init64 /\ [][Next64]_vars

\* an object of either package
Spec == Init /\ [][Next]_vars

\* an object of either package fed less than one stripe
SpecShort == Init /\ [][NextShort]_vars

\* two objects of one package, called by two goroutines
SpecPair == InitPair /\ [][NextPair]_vars

\* ------------------------------------------------------------------------
\* Properties
\* ------------------------------------------------------------------------

\* C1 (32-bit chunk-invariance): on an object made by New(s) and fed by Write
\* calls only, whatever the cuts between the inputs, the first Sum32() returns
\* Checksum(d, s) of the concatenation d of the inputs.
ChunkInvariance32 ==
    (bits = 32 /\ ret.op = "Sum32" /\ nsum = 1 /\ nreset = 0)
        => ret.h = Checksum32(written, xxh.seed)

\* the first Sum32 after 15 and 16 bytes (in either order): a cut one byte
\* before or just on the stripe boundary, one stripe mixed, 15 bytes carried
ChunkInvariance32Witness ==
    /\ bits = 32 /\ ret.op = "Sum32" /\ nsum = 1 /\ nreset = 0
    /\ Len(written) = 31
    /\ xxh.bufused = 15
    /\ xxh.totalLen = 31

\* C2 (64-bit chunk-invariance): on an object made by New(s) and fed by Write
\* calls only, whatever the cuts between the inputs, a single Sum64() returns
\* Checksum(d, s) of the concatenation d of the inputs.
ChunkInvariance64 ==
    (bits = 64 /\ ret.op = "Sum64" /\ nsum = 1 /\ nreset = 0)
        => ret.h = Checksum64(written, xxh.seed, littleEndian, host)

\* the single Sum64 after 31 and 32 bytes (in either order): a cut one byte
\* before or just on the stripe boundary, one stripe mixed, 31 bytes carried
ChunkInvariance64Witness ==
    /\ bits = 64 /\ ret.op = "Sum64" /\ nsum = 1 /\ nreset = 0
    /\ Len(written) = 63
    /\ xxh.bufused = 31
    /\ xxh.totalLen = 63

\* a step that is a call of Sum64 / of Sum32
Sum64Step == bits = 64 /\ ret'.op = "Sum64" /\ nsum' = nsum + 1
Sum32Step == bits = 32 /\ ret'.op = "Sum32" /\ nsum' = nsum + 1

\* C3 (64-bit finalize is a pure read), as claimed: a call of Sum64() leaves
\* seed, v1..v4, totalLen, the carry bytes and the carry length as they were,
\* whatever totalLen is.  The code assigns the lanes when totalLen >= 32, so
\* this does not hold.
Sum64PureRead == [][Sum64Step => xxh' = xxh]_vars

\* C3, as the code has it: Sum64() leaves every field as it was when
\* totalLen < 32; with totalLen >= 32 it leaves seed, totalLen, the carry
\* bytes and the carry length, and multiplies each lane by prime64_2.
Sum64Effect ==
    [][Sum64Step =>
          IF xxh.totalLen < 32
          THEN xxh' = xxh
          ELSE xxh' = [xxh EXCEPT !.v1 = Mul(xxh.v1, prime64_2),
                                  !.v2 = Mul(xxh.v2, prime64_2),
                                  !.v3 = Mul(xxh.v3, prime64_2),
                                  !.v4 = Mul(xxh.v4, prime64_2)]]_vars

\* a first Sum64 has returned with 33 bytes written, and the first lane is
\* prime64_2 times the lane the Write calls had left
Sum64EffectWitness ==
    /\ bits = 64 /\ ret.op = "Sum64" /\ nsum = 1 /\ nreset = 0
    /\ xxh.totalLen = 33
    /\ xxh.v1 = Mul(Write64(New64(xxh.seed), written, littleEndian, host).x.v1,
                    prime64_2)
    /\ xxh.v1 # Write64(New64(xxh.seed), written, littleEndian, host).x.v1

\* C4 (64-bit idempotent finalize), as claimed: two consecutive Sum64() calls,
\* no Write or Reset between them, return the same value, whatever the total
\* length.  With 32 bytes or more written the first call has changed the
\* lanes the second one reads, so this does not hold.
Sum64Idempotent ==
    [][(Sum64Step /\ ret.op = "Sum64") => ret'.h = ret.h]_vars

\* C4, as the code has it: with fewer than 32 bytes written, two consecutive
\* Sum64() calls return the same value.
Sum64IdempotentShort ==
    [][(Sum64Step /\ ret.op = "Sum64" /\ xxh.totalLen < 32) => ret'.h = ret.h]_vars

\* a second Sum64 has returned with 31 bytes written, all of them carried
Sum64IdempotentShortWitness ==
    /\ bits = 64 /\ ret.op = "Sum64" /\ nsum = 2
    /\ xxh.totalLen = 31
    /\ xxh.bufused = 31

\* C5 (64-bit running hash), as claimed: on an object made by New(s), every
\* Sum64(), whatever Write and Sum64 calls came before, returns Checksum(D, s)
\* of the bytes D written so far.  A Sum64 that follows a Sum64 made with 32
\* bytes or more written reads lanes that call has changed, so this does not
\* hold.
RunningHash64 ==
    (bits = 64 /\ ret.op = "Sum64" /\ nreset = 0)
        => ret.h = Checksum64(written, xxh.seed, littleEndian, host)

\* C5, as the code has it: on an object made by New(s), every Sum64() made
\* with fewer than 32 bytes written so far returns Checksum(D, s).
RunningHash64Short ==
    (bits = 64 /\ ret.op = "Sum64" /\ nreset = 0 /\ Len(written) < 32)
        => ret.h = Checksum64(written, xxh.seed, littleEndian, host)

\* a second Sum64 has returned with 20 bytes written
RunningHash64ShortWitness ==
    /\ bits = 64 /\ ret.op = "Sum64" /\ nsum = 2 /\ nreset = 0
    /\ Len(written) = 20
    /\ xxh.bufused = 20

\* C6 (32-bit running hash): on an object made by New(s), every Sum32(),
\* whatever Write, Sum32 and Sum calls came before, returns Checksum(D, s) of
\* the bytes D written so far; it leaves the struct as it was, and a Sum32
\* that follows a Sum32 returns the same value.
RunningHash32 ==
    [][Sum32Step =>
          /\ xxh' = xxh
          /\ nreset = 0 => ret'.h = Checksum32(written, xxh.seed)
          /\ ret.op = "Sum32" => ret'.h = ret.h]_vars

\* a second Sum32 between two Resets, with more than two stripes written and
\* a byte in the carry
RunningHash32Witness ==
    /\ bits = 32 /\ ret.op = "Sum32" /\ nsum = 2 /\ nreset = 0
    /\ xxh.totalLen = 33
    /\ xxh.bufused = 1

\* New(seed), Write(d) and the finalize call, on a fresh object
FreshSum32(seed, d) == Sum32(Write32(New32(seed), d).x)
FreshSum64(seed, d) ==
    Sum64(Write64(New64(seed), d, littleEndian, host).x, littleEndian, host).h

\* C7 (Reset equivalence, both widths): after a Reset, whatever calls came
\* before it, writing d and finalizing (Sum32, Sum64 or Sum) returns what a
\* fresh New(seed) followed by Write(d) and the same finalize call returns;
\* lanes, length and carry bytes of before the Reset have no influence.
ResetEquivalence ==
    /\ (nreset > 0 /\ nsum = 1 /\ ret.op = "Sum32")
          => ret.h = FreshSum32(xxh.seed, written)
    /\ (nreset > 0 /\ nsum = 1 /\ ret.op = "Sum64")
          => ret.h = FreshSum64(xxh.seed, written)
    /\ (nreset > 0 /\ nsum = 0 /\ ret.op = "Sum")
          => ret.out = ret.b \o (IF bits = 32 THEN FreshSum32(xxh.seed, written)
                                             ELSE FreshSum64(xxh.seed, written))

\* the first Sum64 after a Reset and a Write of 20 bytes, on an object that
\* carried 31 bytes before the Reset: the carry holds bytes of before the
\* Reset past the 20 new ones
ResetEquivalenceWitness ==
    /\ bits = 64 /\ nreset = 1 /\ nsum = 1 /\ ret.op = "Sum64"
    /\ fed = 51
    /\ Len(written) = 20
    /\ xxh.totalLen = 20
    /\ xxh.bufused = 20
    /\ xxh.buf[21] # 0

\* C8 (Write never fails and consumes everything, both widths): every Write,
\* the empty one and those through the carry block and the stripe loop
\* included, returns (len(input), nil).
WriteReturns ==
    [][ret'.op = "Write" => (ret'.n = fed' - fed /\ ret'.err = "nil")]_vars

\* a Write of 33 bytes on a carry of 31 has returned: the carry block and the
\* stripe loop both ran
WriteReturnsWitness ==
    /\ bits = 64 /\ ret.op = "Write" /\ ret.n = 33
    /\ xxh.totalLen = 64
    /\ xxh.bufused = 0
    /\ nreset = 0

\* C9 (empty Write is a no-op, both widths): a Write of a zero-length input
\* leaves seed, lanes, totalLen, carry bytes and carry length as they were.
EmptyWriteNoOp ==
    [][(ret'.op = "Write" /\ fed' = fed) => xxh' = xxh]_vars

\* an empty Write has returned on an object with a stripe mixed and bytes in
\* the carry
EmptyWriteNoOpWitness ==
    /\ bits = 32 /\ ret.op = "Write" /\ ret.n = 0
    /\ xxh.totalLen = 26
    /\ xxh.bufused = 10

\* the little-endian encoding of a word on w bytes: byte i (from 0) is
\* (h \div 256^i) % 256
LittleEndianBytes(h, w) == [i \in 1..w |-> Shr(h, 8 * (i - 1))[1]]

\* C10 (digest serialization, both widths): Sum(b) returns b followed by
\* exactly Size() bytes, 4 or 8, which are the little-endian encoding of the
\* value Sum32()/Sum64() returns in the same state; Size() returns 4 or 8 in
\* every state.
DigestSerialization ==
    /\ ret.op = "Sum" =>
          /\ Len(ret.out) = Len(ret.b) + (IF bits = 32 THEN Size32 ELSE Size64)
          /\ SubSeq(ret.out, 1, Len(ret.b)) = ret.b
          /\ SubSeq(ret.out, Len(ret.b) + 1, Len(ret.out)) =
                IF bits = 32
                THEN LittleEndianBytes(Sum32(xxh), 4)
                ELSE LittleEndianBytes(Sum64(xxh, littleEndian, host).h, 8)
    /\ ret.op = "Size" => ret.n = (IF bits = 32 THEN 4 ELSE 8)

\* Sum(b) has returned on an xxHash32 object with a stripe mixed and bytes in
\* the carry, and the digest is not a palindrome
DigestSerializationWitness ==
    /\ bits = 32 /\ ret.op = "Sum"
    /\ Len(ret.b) = 2
    /\ xxh.totalLen = 27
    /\ xxh.bufused = 11
    /\ ret.out[3] # ret.out[6]


\* C11 (64-bit Sum(b) frame): a call of Sum(b) on an xxHash64 object leaves
\* seed, v1..v4, totalLen, buf and bufused as they were, also with 32 bytes or
\* more written, and a Sum64() after it returns what a Sum64() before it would
\* have returned.
SumB64Frame ==
    [][(bits = 64 /\ ret'.op = "Sum")
          => /\ xxh' = xxh
             /\ Sum64(xxh', littleEndian, host).h = Sum64(xxh, littleEndian, host).h]_vars

\* Sum(b) has returned on an object with 65 bytes written and no Sum64 made:
\* the lanes are those the Write calls left, and the digest appended is
\* Checksum of the bytes
SumB64FrameWitness ==
    /\ bits = 64 /\ ret.op = "Sum"
    /\ nsum = 0 /\ nreset = 0
    /\ xxh.totalLen = 65
    /\ xxh.v1 = Write64(New64(xxh.seed), written, littleEndian, host).x.v1
    /\ ret.out = Append64(ret.b, Checksum64(written, xxh.seed, littleEndian, host))

\* the digests of the tests: 0xa3643705 and 0x32d153ff (xxHash32),
\* 0xde0327b0d25d92cc and 0x44bc2cf5ad770999 (xxHash64), least significant
\* byte first
Abcd32 == <<5, 55, 100, 163>>
Abc32 == <<255, 83, 209, 50>>
Abcd64 == <<204, 146, 93, 210, 176, 39, 3, 222>>
Abc64 == <<153, 9, 119, 173, 245, 44, 188, 68>>

\* C12 (32-bit reference vectors): on an object made by New(0), after the
\* bytes "abcd" are written Sum32() returns 0xa3643705, after the bytes "abc"
\* it returns 0x32d153ff, and Checksum(data, 0) returns the same two values.
Vectors32 ==
    (bits = 32 /\ xxh.seed = FromNat(0, 4) /\ nreset = 0 /\ ret.op = "Sum32")
        => /\ written = <<97, 98, 99, 100>>
                => (ret.h = Abcd32 /\ Checksum32(written, xxh.seed) = Abcd32)
           /\ written = <<97, 98, 99>>
                => (ret.h = Abc32 /\ Checksum32(written, xxh.seed) = Abc32)

\* Sum32 has returned on an object made by New(0) that holds "abcd" in its
\* carry, written by one call
Vectors32Witness ==
    /\ bits = 32 /\ ret.op = "Sum32"
    /\ xxh.seed = FromNat(0, 4) /\ nreset = 0
    /\ written = <<97, 98, 99, 100>> /\ fed = 4
    /\ xxh.bufused = 4 /\ xxh.totalLen = 4

\* C13 (64-bit reference vectors): on an object made by New(0), after the
\* bytes "abcd" are written Sum64() returns 0xde0327b0d25d92cc, after the bytes
\* "abc" it returns 0x44bc2cf5ad770999, and Checksum(data, 0) returns the same
\* two values.
Vectors64 ==
    (bits = 64 /\ xxh.seed = FromNat(0, 8) /\ nreset = 0 /\ ret.op = "Sum64")
        => /\ written = <<97, 98, 99, 100>>
                => /\ ret.h = Abcd64
                   /\ Checksum64(written, xxh.seed, littleEndian, host) = Abcd64
           /\ written = <<97, 98, 99>>
                => /\ ret.h = Abc64
                   /\ Checksum64(written, xxh.seed, littleEndian, host) = Abc64

\* Sum64 has returned on an object made by New(0) that holds "abc" in its
\* carry
Vectors64Witness ==
    /\ bits = 64 /\ ret.op = "Sum64"
    /\ xxh.seed = FromNat(0, 8) /\ nreset = 0
    /\ written = <<97, 98, 99>> /\ fed = 3
    /\ xxh.bufused = 3 /\ xxh.totalLen = 3

\* C14 (empty input): a Sum32() / Sum64() on an object that has no byte
\* written since New(s) or Reset() takes the branch of totalLen below one
\* stripe, reads no carry byte and returns avalanche(s + prime32_5), resp.
\* avalanche(s + prime64_5); Checksum(empty, s) returns the same value; with
\* seed 0 the value is not 0.
EmptyInput ==
    /\ (bits = 32 /\ ret.op = "Sum32" /\ written = <<>>)
          => /\ xxh.totalLen < 16 /\ xxh.bufused = 0
             /\ ret.h = Avalanche32(Add(xxh.seed, prime32_5))
             /\ Checksum32(<<>>, xxh.seed) = ret.h
             /\ xxh.seed = FromNat(0, 4) => ret.h # FromNat(0, 4)
    /\ (bits = 64 /\ ret.op = "Sum64" /\ written = <<>>)
          => /\ xxh.totalLen < 32 /\ xxh.bufused = 0
             /\ ret.h = Avalanche64(Add(xxh.seed, prime64_5))
             /\ Checksum64(<<>>, xxh.seed, littleEndian, host) = ret.h
             /\ xxh.seed = FromNat(0, 8) => ret.h # FromNat(0, 8)

\* Sum64 has returned on an object of seed 0 that took 65 bytes, then a Reset
\* and no byte since: buf still holds bytes of before the Reset
EmptyInputWitness ==
    /\ bits = 64 /\ ret.op = "Sum64"
    /\ xxh.seed = FromNat(0, 8)
    /\ written = <<>> /\ nreset = 1 /\ fed = 65
    /\ xxh.buf[1] # 0
    /\ ret.h # FromNat(0, 8)

\* C15 (independent instances): with two objects called by two goroutines,
\* under every interleaving of the calls each object's fields and the value its
\* last call returned are those that the calls made on that object give when
\* they run alone on a fresh object, so no call on one object writes anything
\* the other reads; littleEndian keeps the value init() gave it.
IndependentInstances ==
    /\ \A i \in {1, 2} :
          [xxh |-> Obj(i), ret |-> Returned(i)]
              = RunAlone(bits, NoPeer, calls[i], littleEndian, host)
    /\ littleEndian = InitLittleEndian(host)

\* two xxHash64 objects of different seeds: the first has had Write and Sum64
\* (which changed its lanes), the second has had Write; both have one stripe
\* mixed and one byte carried
IndependentInstancesWitness ==
    /\ bits = 64
    /\ Len(calls[1]) = 3 /\ calls[1][2].op = "Write" /\ calls[1][3].op = "Digest"
    /\ Len(calls[2]) = 2 /\ calls[2][2].op = "Write"
    /\ xxh.seed # peer.xxh.seed
    /\ xxh.totalLen = 33 /\ peer.xxh.totalLen = 33
    /\ ret.op = "Sum64" /\ peer.ret.op = "Write"
    /\ xxh.buf # peer.xxh.buf

\* C16 (seed immutability): the seed field is the seed passed to New and no
\* call changes it: every step of Write, Sum, Sum32/Sum64, Size, BlockSize and
\* Reset leaves it as it was, and a Reset step sets the lanes to those New
\* makes from that seed.
SeedImmutable ==
    /\ ret.op = "New" => xxh = CallNew(bits, xxh.seed).xxh
    /\ [][/\ xxh'.seed = xxh.seed
          /\ ret'.op = "Reset"
                => /\ xxh'.v1 = CallNew(bits, xxh.seed).xxh.v1
                   /\ xxh'.v2 = CallNew(bits, xxh.seed).xxh.v2
                   /\ xxh'.v3 = CallNew(bits, xxh.seed).xxh.v3
                   /\ xxh'.v4 = CallNew(bits, xxh.seed).xxh.v4]_vars

\* an xxHash64 object made with the all-ones seed has had 65 bytes and then a
\* Reset: the seed field is still all-ones and v3 equals it
SeedImmutableWitness ==
    /\ bits = 64 /\ ret.op = "Reset"
    /\ fed = 65 /\ nreset = 1
    /\ xxh.seed = <<255, 255, 255, 255, 255, 255, 255, 255>>
    /\ xxh.v3 = xxh.seed
    /\ xxh.buf[1] # 0

\* C17 (initial state): right after New(seed) and right after every Reset()
\* the lanes are v1 = seed + prime_1 + prime_2, v2 = seed + prime_2, v3 = seed,
\* v4 = seed - prime_1 in the arithmetic of the package's word (modulo 2^32,
\* resp. 2^64), totalLen is 0 and bufused is 0.
InitialState ==
    ret.op \in {"New", "Reset"}
        => /\ xxh.v1 = IF bits = 32 THEN Add(Add(xxh.seed, prime32_1), prime32_2)
                                    ELSE Add(Add(xxh.seed, prime64_1), prime64_2)
           /\ xxh.v2 = IF bits = 32 THEN Add(xxh.seed, prime32_2)
                                    ELSE Add(xxh.seed, prime64_2)
           /\ xxh.v3 = xxh.seed
           /\ xxh.v4 = IF bits = 32 THEN Sub(xxh.seed, prime32_1)
                                    ELSE Sub(xxh.seed, prime64_1)
           /\ xxh.totalLen = 0
           /\ xxh.bufused = 0

\* an xxHash32 object of seed 0 right after a Reset that followed 33 bytes:
\* v1 is prime32_1 + prime32_2 - 2^32 = 0x24234428, v4 is 2^32 - prime32_1 =
\* 0x61c8864f, and buf still holds bytes of before the Reset
InitialStateWitness ==
    /\ bits = 32 /\ ret.op = "Reset"
    /\ fed = 33
    /\ xxh.seed = FromNat(0, 4)
    /\ xxh.v1 = <<40, 68, 35, 36>>
    /\ xxh.v4 = <<79, 134, 200, 97>>
    /\ xxh.buf[1] # 0

\* C18 (carry bound): in every reachable state, so before and after every
\* Write call, 0 <= bufused < 16 on an xxHash32 object and 0 <= bufused < 32 on
\* an xxHash64 object.
CarryBound ==
    /\ 0 <= xxh.bufused
    /\ xxh.bufused < (IF bits = 32 THEN 16 ELSE 32)

\* a Write has returned on an xxHash32 object that now carries 15 bytes, one
\* less than a stripe, after one stripe was mixed
CarryBoundWitness ==
    /\ bits = 32 /\ ret.op = "Write" /\ ret.n > 0
    /\ xxh.totalLen = 31
    /\ xxh.bufused = 15

\* C19 (length accounting): in every reachable state totalLen is the number of
\* bytes passed to Write since New or the last Reset, those still in the carry
\* and those mixed into the lanes alike, and no step of Sum, Sum32/Sum64 or
\* Size changes it.
LengthAccounting ==
    /\ [](xxh.totalLen = Len(written))
    /\ [][ret'.op \in {"Sum", "Sum32", "Sum64", "Size"}
              => xxh'.totalLen = xxh.totalLen]_vars

\* an xxHash32 object that took 10 and then 17 bytes and then a Sum32: 16
\* bytes are mixed into the lanes, 11 are in the carry, totalLen is 27
LengthAccountingWitness ==
    /\ bits = 32 /\ ret.op = "Sum32"
    /\ nreset = 0
    /\ Len(written) = 27
    /\ xxh.totalLen = 27
    /\ xxh.bufused = 11

\* the word of width bytes that starts at d[off], first byte least significant
LittleEndianWord(d, off, width) == [i \in 1..width |-> d[off + i]]

\* rotl(v + w * p2, r) * p1 in words of Len(v) bytes
StripeMix(v, w, p1, p2, r) ==
    Mul(ShlOrShr(Add(v, Mul(w, p2)), r, 8 * Len(v) - r), p1)

\* the lanes v after the stripes number done + 1 .. total of d are mixed in, in
\* order, each once
RECURSIVE FoldStripes(_, _, _, _, _, _, _)
FoldStripes(v, d, done, total, p1, p2, r) ==
    IF done >= total
    THEN v
    ELSE FoldStripes(
             [i \in 1..4 |->
                 StripeMix(v[i],
                           LittleEndianWord(d, 4 * Len(v[i]) * done + Len(v[i]) * (i - 1),
                                            Len(v[i])),
                           p1, p2, r)],
             d, done + 1, total, p1, p2, r)

\* C20 (stripes are drained as soon as available): after Write calls on an
\* object fresh from New(s) or Reset, with no Sum32/Sum64 in between and D the
\* bytes written, v1..v4 are the initial lanes with the first
\* floor(len(D) / stripe) stripes of D mixed in by
\* v[i] = rotl(v[i] + w[i] * prime_2, 13 resp. 31) * prime_1, in order and each
\* once, the words read little-endian, wherever the cuts between the calls are.
StripesDrained ==
    nsum = 0 =>
        <<xxh.v1, xxh.v2, xxh.v3, xxh.v4>> =
            IF bits = 32
            THEN FoldStripes(<<Add(Add(xxh.seed, prime32_1), prime32_2),
                               Add(xxh.seed, prime32_2), xxh.seed,
                               Sub(xxh.seed, prime32_1)>>,
                             written, 0, Len(written) \div 16,
                             prime32_1, prime32_2, 13)
            ELSE FoldStripes(<<Add(Add(xxh.seed, prime64_1), prime64_2),
                               Add(xxh.seed, prime64_2), xxh.seed,
                               Sub(xxh.seed, prime64_1)>>,
                             written, 0, Len(written) \div 32,
                             prime64_1, prime64_2, 31)

\* an xxHash64 object took 33 and then 32 bytes: the second stripe was made of
\* the carried byte and 31 bytes of the second call, and one byte is carried
StripesDrainedWitness ==
    /\ bits = 64 /\ ret.op = "Write" /\ ret.n = 32
    /\ nsum = 0 /\ nreset = 0
    /\ Len(written) = 65
    /\ xxh.bufused = 1
    /\ xxh.v3 # xxh.seed

\* the bytes that the Write step just taken was given
LastInput == SubSeq(written', Len(written) + 1, Len(written'))

Scrub(buf, used) == [i \in 1..Len(buf) |-> IF i <= used THEN buf[i] ELSE 255 - buf[i]]

\* C22 (carry content): with D the bytes written since New or the last Reset,
\* in every reachable state bufused = len(D) mod stripe size and
\* buf[0 .. bufused) holds the last bufused bytes of D in order; and every
\* Sum32/Sum64 returns the digest it would return with the bytes of buf at
\* index >= bufused replaced (it does not read them).
CarryContent ==
    /\ [](/\ xxh.bufused = Len(written) % (IF bits = 32 THEN 16 ELSE 32)
          /\ SubSeq(xxh.buf, 1, xxh.bufused)
                = SubSeq(written, Len(written) - xxh.bufused + 1, Len(written)))
    /\ [][/\ ret'.op = "Sum32"
                => Sum32([xxh EXCEPT !.buf = Scrub(xxh.buf, xxh.bufused)]) = ret'.h
          /\ ret'.op = "Sum64"
                => Sum64([xxh EXCEPT !.buf = Scrub(xxh.buf, xxh.bufused)],
                         littleEndian, host).h = ret'.h]_vars

\* an xxHash32 object that took 15 bytes, a Reset and then 10 bytes: buf holds
\* the 10 bytes and, behind them, bytes of before the Reset; Sum32 has returned
CarryContentWitness ==
    /\ bits = 32 /\ ret.op = "Sum32"
    /\ nreset = 1 /\ fed = 25
    /\ Len(written) = 10
    /\ xxh.bufused = 10
    /\ \E i \in 11..16 : xxh.buf[i] # 0

\* the range lo .. hi - 1 lies within a slice or array of len elements (for an
\* index expression hi = lo + 1, so lo < len)
InBounds(a) == 0 <= a.lo /\ a.lo <= a.hi /\ a.hi <= a.len

\* C23 (in-bounds access): in every reachable state (bufused below the stripe
\* size) and for every input length, each slice expression, index expression
\* and raw read of Write stays within input resp. buf (each stripe window is
\* input[p : p+stripe] with 0 <= p and p + stripe <= len(input), each copy
\* into buf ends below its capacity), each tail read of Sum32/Sum64 lies
\* within the first bufused bytes of buf, and each read of Checksum of the
\* bytes written lies within its input resp. the bytes left of it.
InBoundsAccess ==
    /\ \A n \in 0..MaxInput :
          \A a \in WriteAccesses(Len(xxh.buf), xxh.bufused, n, bits \div 8) :
              InBounds(a)
    /\ \A a \in SumAccesses(Len(xxh.buf), xxh.bufused, bits \div 8) : InBounds(a)
    /\ \A a \in ChecksumAccesses(Len(written), Len(xxh.buf), bits \div 8) :
          InBounds(a)

\* a Write of 17 bytes has returned on an xxHash32 object that carried 15: the
\* first byte completed the carry and the loop read the window input[1 : 17],
\* which ends with the input
InBoundsAccessWitness ==
    /\ bits = 32 /\ ret.op = "Write" /\ ret.n = 17
    /\ xxh.totalLen = 32
    /\ xxh.bufused = 0
    /\ [len |-> 17, lo |-> 1, hi |-> 17] \in WriteAccesses(16, 15, 17, 4)
    /\ [len |-> 16, lo |-> 15, hi |-> 16] \in WriteAccesses(16, 15, 17, 4)
====
